---- MODULE Spec2Model ----
(***************************************************************************)
(* Mixed-radix (Cooley-Tukey) FFT plan of liquid-dsp:                      *)
(*   src/src/fft/src/fft_mixed_radix.c                                     *)
(*                                                                         *)
(* One caller owns the buffers _x and _y of nfft samples and builds,       *)
(* executes and destroys mixed-radix plans on them, one plan at a time.    *)
(* The heap is the function mem from live block names to block contents.   *)
(* The sub-plans come from the plan factory FFT(_create_plan), which is    *)
(* not part of this file: they are direct DFTs of size P and Q.            *)
(*                                                                         *)
(* A complex sample (TC) is an element of the group ring Z[C_n], n = nfft: *)
(* an integer combination of the powers z^0 .. z^(n-1), where z stands for *)
(* exp(2*pi*i/n).  Products of samples are cyclic convolutions; two ring   *)
(* elements denote the same complex number exactly when their difference   *)
(* is a multiple of the n-th cyclotomic polynomial (EqC).                  *)
(***************************************************************************)
EXTENDS Integers, Sequences, FiniteSets, TLC

VARIABLES
    nfft,      \* the size the caller asks for (length of its buffers)
    mem,       \* heap: live block name -> contents
    plan,      \* the caller's handle: "q" or "NULL"
    last,      \* the operation that ran last
    heap0,     \* history: the live blocks just before the latest build
    alloc,     \* history: the blocks the latest build allocated
    log,       \* history: the free/read events of the latest destroy, in order
    fault,     \* undefined behaviour happened in destroy (use after free, bad free)
    oob,       \* undefined behaviour happened in execute (access out of bounds)
    pre,       \* history: the heap at the start of the latest execute
    memo,      \* history: [dir, in, out] of every completed execute, in order
    used,      \* the directions a plan was built for so far
    nexec      \* number of executes so far

vars == <<nfft, mem, plan, last, heap0, alloc, log, fault, oob, pre, memo, used, nexec>>

\* ---------------------------------------------------------------- bounds
MaxN == 12
MaxExec == 2

\* -------------------------------------------------- complex samples (TC)
\* A sample is the function from the exponents e with a nonzero coefficient
\* to that coefficient: the sample  sum of a[e] * z^e.
RECURSIVE SumOver(_, _)
SumOver(f, S) ==
    IF S = {} THEN 0
    ELSE LET e == CHOOSE e \in S : TRUE IN f[e] + SumOver(f, S \ {e})

CZero == [e \in {} |-> 0]

\* (f @@ CZero is f, with its values computed once)
Support(c) == [e \in {x \in DOMAIN c : c[x] # 0} |-> c[e]] @@ CZero

\* z^e, for any integer e
CUnit(n, e) == [x \in {e % n} |-> 1] @@ CZero

Coef(a, e) == IF e \in DOMAIN a THEN a[e] ELSE 0

CAdd(a, b) ==
    Support([e \in DOMAIN a \cup DOMAIN b |-> Coef(a, e) + Coef(b, e)] @@ CZero)

CSub(a, b) ==
    Support([e \in DOMAIN a \cup DOMAIN b |-> Coef(a, e) - Coef(b, e)] @@ CZero)

CScale(c, a) == Support([e \in DOMAIN a |-> c * a[e]] @@ CZero)

\* product of two samples: cyclic convolution of the coefficients (z^n = 1)
CMul(n, a, b) ==
    Support([e \in {(i + j) % n : i \in DOMAIN a, j \in DOMAIN b} |->
                LET I == {i \in DOMAIN a : (e - i) % n \in DOMAIN b}
                IN  SumOver([i \in I |-> a[i] * b[(e - i) % n]], I)] @@ CZero)

\* cexpf(_Complex_I * d * 2 * M_PI * i / m), as a sample of Z[C_n], m | n
Cexp(n, d, i, m) == CUnit(n, d * i * (n \div m))

\* ---- equality of samples as complex numbers: reduction modulo the n-th
\* ---- cyclotomic polynomial (polynomials are coefficient sequences, low first)
RECURSIVE PolyRem(_, _)
PolyRem(a, b) ==
    IF Len(a) < Len(b) THEN a
    ELSE LET c == a[Len(a)]
             s == Len(a) - Len(b)
         IN  PolyRem([k \in 1..(Len(a) - 1) |->
                        a[k] - (IF k > s THEN c * b[k - s] ELSE 0)], b)

RECURSIVE PolyQuo(_, _)
PolyQuo(a, b) ==
    IF Len(a) < Len(b) THEN << >>
    ELSE LET c == a[Len(a)]
             s == Len(a) - Len(b)
         IN  Append(PolyQuo([k \in 1..(Len(a) - 1) |->
                        a[k] - (IF k > s THEN c * b[k - s] ELSE 0)], b), c)

RECURSIVE Phi(_)
RECURSIVE DivAll(_, _)
DivAll(p, D) ==
    IF D = {} THEN p
    ELSE LET d == CHOOSE d \in D : TRUE IN DivAll(PolyQuo(p, Phi(d)), D \ {d})

\* the n-th cyclotomic polynomial: (x^n - 1) / product of Phi(d), d | n, d < n
Phi(n) ==
    DivAll([k \in 1..(n + 1) |-> IF k = 1 THEN -1 ELSE IF k = n + 1 THEN 1 ELSE 0],
           {d \in 1..(n - 1) : n % d = 0})

PhiTab == [n \in 1..MaxN |-> Phi(n)]

\* the sample a is the complex number 0
IsZeroC(n, a) ==
    LET r == PolyRem([k \in 1..n |-> Coef(a, k - 1)] \o << >>, PhiTab[n])
    IN  \A k \in 1..Len(r) : r[k] = 0

EqC(n, a, b) == IsZeroC(n, CSub(a, b))

\* ------------------------------------------------------------- the heap
Malloc(m, blk, content) ==
    [b \in DOMAIN m \cup {blk} |-> IF b = blk THEN content ELSE m[b]]

Free(m, blk) == [b \in DOMAIN m \ {blk} |-> m[b]]

\* a freshly allocated array of len samples: uninitialised, every sample junk
Fresh(len, junk) == [k \in 1..len |-> junk] \o << >>

\* ---------------------------------------- FFT(_create_plan_mixed_radix)
Direction(_dir) == IF _dir = "FFT_FORWARD" THEN "FFT_FORWARD" ELSE "FFT_REVERSE"

\* faulty variants of the factor scan: without the break; with the bound i <= nfft
RECURSIVE FactorScanNoBreak(_, _)
FactorScanNoBreak(n, i) ==
    IF i < n
    THEN LET rest == FactorScanNoBreak(n, i + 1)
         IN  IF rest # 0 THEN rest ELSE IF n % i = 0 THEN i ELSE 0
    ELSE 0

RECURSIVE FactorScanIncl(_, _)
FactorScanIncl(n, i) ==
    IF i <= n THEN (IF n % i = 0 THEN i ELSE FactorScanIncl(n, i + 1)) ELSE 0

\* for (i=2; i<nfft; i++) if ((nfft % i)==0) { Q = i; break; }
RECURSIVE FactorScan(_, _)
FactorScan(n, i) ==
    IF i < n THEN (IF n % i = 0 THEN i ELSE FactorScan(n, i + 1)) ELSE 0

FirstFactor(n) == FactorScan(n, 2)

\* faulty variant: the shorter of the two lengths
TLenMin(P, Q) == IF Q < P THEN Q ELSE P

TLen(P, Q) == IF Q > P THEN Q ELSE P

\* faulty variant: the forward sign for both directions
TwiddleSignForward(direction) == -1

TwiddleSign(direction) == IF direction = "FFT_FORWARD" THEN -1 ELSE 1

TwiddleTable(n, direction) ==
    [k \in 1..n |-> Cexp(n, TwiddleSign(direction), k - 1, n)] \o << >>

\* the plan record after lines 48-58; the fields set later are still junk
PlanHeader(n, _dir) ==
    [nfft |-> n, x |-> "_x", y |-> "_y", direction |-> Direction(_dir),
     Q |-> 0, P |-> 0, t0 |-> "junk", t1 |-> "junk", mr_x |-> "junk",
     subplans |-> "junk", twiddle |-> "junk"]

\* the plan record as returned
PlanRecord(n, _dir) ==
    LET Q == FirstFactor(n) IN
    [PlanHeader(n, _dir) EXCEPT !.Q = Q, !.P = n \div Q, !.t0 = "t0", !.t1 = "t1",
                                !.mr_x = "x", !.subplans = "subplans",
                                !.twiddle = "twiddle"]

\* the sign of the exponent of a sub-plan's transform
SubSign(direction) == IF direction = "FFT_FORWARD" THEN -1 ELSE 1

\* the block a sub-plan owns beside its record
OwnedBy(h) == IF h = "sub0" THEN "sub0_buf" ELSE "sub1_buf"

\* FFT(_create_plan): the plan factory, for a sub-transform of size n of a
\* transform of size big; the sub-plan owns its record and its own twiddle table
CreatePlan(m, h, n, x, y, direction, big) ==
    Malloc(Malloc(m, h, [nfft |-> n, x |-> x, y |-> y, direction |-> direction]),
           OwnedBy(h),
           [k \in 1..n |-> Cexp(big, SubSign(direction), k - 1, n)] \o << >>)

\* the heap when the constructor returns (lines 79-111)
BuildMem(m, n, _dir, junk) ==
    LET q  == PlanRecord(n, _dir)
        m1 == Malloc(m, "q", q)
        m2 == Malloc(m1, "t0", Fresh(TLen(q.P, q.Q), junk))
        m3 == Malloc(m2, "t1", Fresh(TLen(q.P, q.Q), junk))
        m4 == Malloc(m3, "x", Fresh(q.nfft, junk))
        m5 == Malloc(m4, "subplans", <<"sub0", "sub1">>)
        m6 == CreatePlan(m5, "sub0", q.P, q.t0, q.t1, q.direction, q.nfft)
        m7 == CreatePlan(m6, "sub1", q.Q, q.t0, q.t1, q.direction, q.nfft)
    IN  Malloc(m7, "twiddle", TwiddleTable(q.nfft, q.direction))

JunkVals(n) == {CZero, CUnit(n, 1)}

\* the values of the argument _dir: the two directions and any other integer
Dirs == {"FFT_FORWARD", "FFT_REVERSE", "OTHER"}

Build(_dir, junk) ==
    /\ plan = "NULL" /\ last # "fatal" /\ nexec < MaxExec
    /\ Direction(_dir) \notin used
    /\ ~fault /\ ~oob
    /\ heap0' = DOMAIN mem
    /\ used' = used \cup {Direction(_dir)}
    /\ log' = << >>
    /\ IF FirstFactor(nfft) = 0
       THEN \* error: _nfft is prime; exit(1)
            /\ mem' = Malloc(mem, "q", PlanHeader(nfft, _dir))
            /\ plan' = "NULL"
            /\ last' = "fatal"
       ELSE /\ mem' = BuildMem(mem, nfft, _dir, junk)
            /\ plan' = "q"
            /\ last' = "build"
    /\ alloc' = DOMAIN mem' \ DOMAIN mem
    /\ UNCHANGED <<nfft, fault, oob, pre, memo, nexec>>

\* ------------------------------------------------ FFT(_execute_mixed_radix)
\* a[i]; a read out of bounds yields junk
Rd(a, i) == IF i >= 0 /\ i < Len(a) THEN a[i + 1] ELSE CZero

\* The loop  for (k=0; k<cnt; k++) dst[idx[k]] = val[k];  where val reads only
\* arrays other than dst: element p of dst ends as val[k] for the last k with
\* idx[k] = p, and a write out of bounds is dropped.
LastWriter(W) == CHOOSE k \in W : \A j \in W : j <= k

Loop(dst, cnt, idx, val) ==
    [p \in 1..Len(dst) |->
        LET W == {k \in 0..(cnt - 1) : idx[k] = p - 1}
        IN  IF W = {} THEN dst[p] ELSE val[LastWriter(W)]] \o << >>

\* faulty variants of the copy: destination and source swapped; no copy at all
CopyInputSwapped(m, q) ==
    LET Same == [k \in Nat |-> k]
        Src == [k \in Nat |-> Rd(m[q.mr_x], k)]
    IN  [m EXCEPT ![q.x] = Loop(m[q.x], q.nfft, Same, Src)]

CopyInputNone(m, q) == m

\* memmove(x, _q->x, _q->nfft*sizeof(TC));
CopyInput(m, q) ==
    LET Same == [k \in Nat |-> k]
        Src == [k \in Nat |-> Rd(m[q.x], k)]
    IN  [m EXCEPT ![q.mr_x] = Loop(m[q.mr_x], q.nfft, Same, Src)]

\* FFT(_execute) on a sub-plan: the plan factory's transform, a DFT of size
\* r.nfft from r.x to r.y with the root exp(i*d*2*pi/r.nfft)
RECURSIVE DftSum(_, _, _, _, _)
DftSum(a, n, d, j, k) ==
    IF k < n
    THEN CAdd(CMul(nfft, Rd(a, k), Cexp(nfft, d, k * j, n)), DftSum(a, n, d, j, k + 1))
    ELSE CZero

ExecuteSub(m, h) ==
    LET r == m[h]
        Same == [k \in Nat |-> k]
        Bin == [k \in Nat |-> DftSum(m[r.x], r.nfft, SubSign(r.direction), k, 0)]
    IN  [m EXCEPT ![r.y] = Loop(m[r.y], r.nfft, Same, Bin)]

\* the four index expressions of the two passes
Idx1(Q, k, i) == Q * k + i

\* faulty variant: the twiddle index as a sum
IdxTwSum(i, k) == i + k

IdxTw(i, k) == i * k

Idx2(Q, i, k) == Q * i + k

IdxOut(P, k, i) == k * P + i

\* for (k=0; k<P; k++) t0[k] = x[Q*k+i];
Gather1(m, q, i) ==
    LET Same == [k \in Nat |-> k]
        Val == [k \in Nat |-> Rd(m[q.mr_x], Idx1(q.Q, k, i))]
    IN  [m EXCEPT ![q.t0] = Loop(m[q.t0], q.P, Same, Val)]

\* for (k=0; k<P; k++) x[Q*k+i] = t1[k] * twiddle[i*k];
Scatter1(m, q, i) ==
    LET Dst == [k \in Nat |-> Idx1(q.Q, k, i)]
        Val == [k \in Nat |->
                   CMul(q.nfft, Rd(m[q.t1], k), Rd(m[q.twiddle], IdxTw(i, k)))]
    IN  [m EXCEPT ![q.mr_x] = Loop(m[q.mr_x], q.P, Dst, Val)]

\* for (i=0; i<Q; i++) { gather; P-point DFT; scatter with twiddles }
RECURSIVE Pass1(_, _, _)
Pass1(m, q, i) ==
    IF i < q.Q
    THEN Pass1(Scatter1(ExecuteSub(Gather1(m, q, i), m[q.subplans][1]), q, i),
               q, i + 1)
    ELSE m

\* for (k=0; k<Q; k++) t0[k] = x[Q*i+k];
Gather2(m, q, i) ==
    LET Same == [k \in Nat |-> k]
        Val == [k \in Nat |-> Rd(m[q.mr_x], Idx2(q.Q, i, k))]
    IN  [m EXCEPT ![q.t0] = Loop(m[q.t0], q.Q, Same, Val)]

\* for (k=0; k<Q; k++) _q->y[k*P+i] = t1[k];
Scatter2(m, q, i) ==
    LET Dst == [k \in Nat |-> IdxOut(q.P, k, i)]
        Val == [k \in Nat |-> Rd(m[q.t1], k)]
    IN  [m EXCEPT ![q.y] = Loop(m[q.y], q.Q, Dst, Val)]

\* for (i=0; i<P; i++) { gather; Q-point DFT; copy and transpose }
RECURSIVE Pass2(_, _, _)
Pass2(m, q, i) ==
    IF i < q.P
    THEN Pass2(Scatter2(ExecuteSub(Gather2(m, q, i), m[q.subplans][2]), q, i),
               q, i + 1)
    ELSE m

\* every (array, index) the two passes and the copy touch
Accesses(q) ==
    {<<q.x, k>> : k \in 0..(q.nfft - 1)} \cup {<<q.mr_x, k>> : k \in 0..(q.nfft - 1)}
    \cup UNION {UNION {{<<q.t0, k>>, <<q.t1, k>>, <<q.mr_x, Idx1(q.Q, k, i)>>,
                        <<q.twiddle, IdxTw(i, k)>>} : k \in 0..(q.P - 1)}
                : i \in 0..(q.Q - 1)}
    \cup UNION {UNION {{<<q.t0, k>>, <<q.t1, k>>, <<q.mr_x, Idx2(q.Q, i, k)>>,
                        <<q.y, IdxOut(q.P, k, i)>>} : k \in 0..(q.Q - 1)}
                : i \in 0..(q.P - 1)}

OutOfBounds(m, q) == \E a \in Accesses(q) : a[2] < 0 \/ a[2] >= Len(m[a[1]])

\* the blocks execute writes
WorkBuffers == {"x", "t0", "t1", "_y"}

ExecuteMixedRadix(m) ==
    LET q == m["q"] IN Pass2(Pass1(CopyInput(m, q), q, 0), q, 0)

Execute ==
    /\ plan = "q" /\ nexec < MaxExec
    /\ ~fault /\ ~oob
    /\ mem' = ExecuteMixedRadix(mem)
    /\ oob' = OutOfBounds(mem, mem["q"])
    /\ memo' = Append(memo, [dir |-> mem["q"].direction,
                             in  |-> mem["_x"], out |-> mem'["_y"]])
    /\ pre' = [b \in DOMAIN mem \ WorkBuffers |-> mem[b]]
    /\ nexec' = nexec + 1
    /\ last' = "execute"
    /\ UNCHANGED <<nfft, plan, heap0, alloc, log, fault, used>>

\* ------------------------------------------- FFT(_destroy_plan_mixed_radix)
\* faulty variants of the destructor: the twiddle table is not released; the
\* scratch buffers are released before the sub-plans are destroyed
DestroyProgLeak ==
    << [op |-> "destroy_sub", arg |-> 1],
       [op |-> "destroy_sub", arg |-> 2],
       [op |-> "free_field", arg |-> "subplans"],
       [op |-> "free_field", arg |-> "t0"],
       [op |-> "free_field", arg |-> "t1"],
       [op |-> "free_field", arg |-> "mr_x"],
       [op |-> "free_self", arg |-> "q"] >>

DestroyProgBuffersFirst ==
    << [op |-> "free_field", arg |-> "t0"],
       [op |-> "free_field", arg |-> "t1"],
       [op |-> "destroy_sub", arg |-> 1],
       [op |-> "destroy_sub", arg |-> 2],
       [op |-> "free_field", arg |-> "subplans"],
       [op |-> "free_field", arg |-> "mr_x"],
       [op |-> "free_field", arg |-> "twiddle"],
       [op |-> "free_self", arg |-> "q"] >>

\* The statements of the destructor, in order.
DestroyProg ==
    << [op |-> "destroy_sub", arg |-> 1],        \* FFT(_destroy_plan)(_q->subplans[0]);
       [op |-> "destroy_sub", arg |-> 2],        \* FFT(_destroy_plan)(_q->subplans[1]);
       [op |-> "free_field", arg |-> "subplans"],\* free(_q->subplans);
       [op |-> "free_field", arg |-> "t0"],      \* free(_q->data.mixedradix.t0);
       [op |-> "free_field", arg |-> "t1"],      \* free(_q->data.mixedradix.t1);
       [op |-> "free_field", arg |-> "mr_x"],    \* free(_q->data.mixedradix.x);
       [op |-> "free_field", arg |-> "twiddle"], \* free(_q->twiddle);
       [op |-> "free_self", arg |-> "q"] >>      \* free(_q);

\* free(blk) in the destructor state d = [m, log, bad]; freeing a block that is
\* not live is undefined
DoFree(d, blk) ==
    IF blk \in DOMAIN d.m
    THEN [d EXCEPT !.m = Free(d.m, blk), !.log = Append(d.log, <<"free", blk>>)]
    ELSE [d EXCEPT !.bad = TRUE, !.log = Append(d.log, <<"free", blk>>)]

\* FFT(_destroy_plan): the plan factory releases a sub-plan and what it owns
DestroyPlan(d, h) == DoFree(DoFree(d, OwnedBy(h)), h)

\* one statement; reading a field of a released plan record is undefined
DestroyStmt(d, st) ==
    IF st.op = "free_self" THEN DoFree(d, st.arg)
    ELSE LET r == [d EXCEPT !.log = Append(d.log, <<"read", "q">>)] IN
         IF "q" \notin DOMAIN d.m THEN [r EXCEPT !.bad = TRUE]
         ELSE IF st.op = "free_field" THEN DoFree(r, d.m["q"][st.arg])
         ELSE IF d.m["q"].subplans \notin DOMAIN d.m THEN [r EXCEPT !.bad = TRUE]
         ELSE DestroyPlan(r, d.m[d.m["q"].subplans][st.arg])

RECURSIVE RunDestroy(_, _, _)
RunDestroy(d, prog, k) ==
    IF k > Len(prog) \/ d.bad THEN d
    ELSE RunDestroy(DestroyStmt(d, prog[k]), prog, k + 1)

DestroyPlanMixedRadix(m) == RunDestroy([m |-> m, log |-> << >>, bad |-> FALSE], DestroyProg, 1)

Destroy ==
    /\ plan = "q"
    /\ ~fault /\ ~oob
    /\ LET d == DestroyPlanMixedRadix(mem) IN
        /\ mem' = d.m
        /\ log' = d.log
        /\ fault' = d.bad
    /\ plan' = "NULL"
    /\ last' = "destroy"
    /\ UNCHANGED <<nfft, heap0, alloc, oob, pre, memo, used, nexec>>

\* ------------------------------------------------------------ the caller
Impulse(n, p) == [k \in 1..n |-> IF k - 1 = p THEN CUnit(n, 0) ELSE CZero] \o << >>

Tone(n, f) == [k \in 1..n |-> CUnit(n, f * (k - 1))] \o << >>

Ramp(n) == [k \in 1..n |-> CAdd(CScale(k, CUnit(n, 0)), CScale(k - 2, CUnit(n, 1)))] \o << >>

\* the input sequences the caller starts with, and the ones it writes later
Inputs(n) == {Impulse(n, p) : p \in 0..(n - 1)} \cup {Tone(n, 1), Ramp(n)}

Rewrites(n) == {Impulse(n, 1), Ramp(n)}

\* the caller writes a new input sequence into its buffer
SetInput(v) ==
    /\ plan = "q" /\ last = "execute" /\ nexec < MaxExec
    /\ ~fault /\ ~oob
    /\ v # mem["_x"]
    /\ mem' = [mem EXCEPT !["_x"] = v]
    /\ last' = "setinput"
    /\ UNCHANGED <<nfft, plan, heap0, alloc, log, fault, oob, pre, memo, used, nexec>>

\* the caller copies the latest output into its input buffer (only the
\* transform of one of its own sequences, which keeps the coefficients bounded)
FeedBack ==
    /\ plan = "q" /\ last = "execute" /\ nexec < MaxExec
    /\ mem["_x"] \in Inputs(nfft)
    /\ ~fault /\ ~oob
    /\ mem["_y"] # mem["_x"]
    /\ mem' = [mem EXCEPT !["_x"] = mem["_y"]]
    /\ last' = "feedback"
    /\ UNCHANGED <<nfft, plan, heap0, alloc, log, fault, oob, pre, memo, used, nexec>>

Init ==
    /\ nfft \in 2..MaxN
    /\ \E v \in Inputs(nfft) :
          mem = [b \in {"_x", "_y"} |-> IF b = "_x" THEN v ELSE Fresh(nfft, CZero)]
    /\ plan = "NULL"
    /\ last = "init"
    /\ heap0 = {"_x", "_y"}
    /\ alloc = {}
    /\ log = << >>
    /\ fault = FALSE
    /\ oob = FALSE
    /\ pre = [b \in {"_x"} |-> mem[b]]
    /\ memo = << >>
    /\ used = {}
    /\ nexec = 0

Next ==
    \/ \E _dir \in Dirs, junk \in JunkVals(nfft) : Build(_dir, junk)
    \/ Execute
    \/ Destroy
    \/ \E v \in Rewrites(nfft) : SetInput(v)
    \/ FeedBack

Spec == Init /\ [][Next]_vars

\* ================================================================ claims
One(n) == CUnit(n, 0)

Executed == last = "execute"

Forward == "q" \in DOMAIN mem /\ mem["q"].direction = "FFT_FORWARD"

\* the direct DFT of the sequence a: out[m] = sum over k of a[k] * w^(k*m mod n),
\* w = z^d the root the twiddle table is generated from
RECURSIVE RefSum(_, _, _, _, _)
RefSum(n, d, a, m, k) ==
    IF k < n
    THEN CAdd(CMul(n, a[k + 1], CUnit(n, d * ((k * m) % n))), RefSum(n, d, a, m, k + 1))
    ELSE CZero

RefDft(n, d, a) == [m \in 1..n |-> RefSum(n, d, a, m - 1, 0)] \o << >>

\* two sequences of samples are the same sequences of complex numbers
EqArr(n, u, v) == Len(u) = Len(v) /\ \A k \in 1..Len(u) : EqC(n, u[k], v[k])

\* C1: after execute on a FORWARD plan the output buffer holds the direct
\* N-point DFT of the input the call started with, output[m] = sum of
\* input[n] * w^(n*m mod N) with w = exp(-2*pi*i/N); for N = 6 the unit impulse
\* yields six ones.
C1_ForwardIsDft ==
    (Executed /\ Forward) =>
        /\ EqArr(nfft, mem["_y"], RefDft(nfft, -1, pre["_x"]))
        /\ (nfft = 6 /\ pre["_x"] = Impulse(6, 0)) =>
               mem["_y"] = [k \in 1..6 |-> One(6)]

C1_Witness ==
    /\ Executed /\ Forward /\ nfft = 6
    /\ pre["_x"] = Impulse(6, 0)
    /\ mem["_y"] = [k \in 1..6 |-> One(6)]

\* C2: in every plan build returns, Q is the smallest integer >= 2 dividing N,
\* P = N / Q and P * Q = N.
C2_SmallestFactor ==
    plan = "q" =>
        LET q == mem["q"] IN
        /\ q.Q >= 2 /\ q.nfft % q.Q = 0
        /\ \A d \in 2..(q.Q - 1) : q.nfft % d # 0
        /\ q.P = q.nfft \div q.Q
        /\ q.P * q.Q = q.nfft /\ q.nfft = nfft

C2_Witness == plan = "q" /\ nfft = 9 /\ mem["q"].Q = 3 /\ mem["q"].P = 3

IsPrime(n) == \A d \in 2..(n - 1) : n % d # 0

ScratchAndSubplans ==
    {"t0", "t1", "x", "subplans", "sub0", "sub0_buf", "sub1", "sub1_buf", "twiddle"}

\* C3: build called with a prime N never returns a plan: it stops with the
\* fatal error, and then no sub-plan exists and no scratch buffer is allocated.
C3_PrimeIsFatal ==
    (IsPrime(nfft) /\ last # "init") =>
        /\ last = "fatal" /\ plan = "NULL"
        /\ DOMAIN mem \cap ScratchAndSubplans = {}

C3_Witness == last = "fatal" /\ nfft = 7 /\ DOMAIN mem \cap ScratchAndSubplans = {}

\* C4: build either returns a fully wired plan or fails, and when it fails
\* every block it had allocated, the plan record included, has been released.
C4_AllOrNothing ==
    /\ last = "build" => DOMAIN mem = heap0 \cup {"q"} \cup ScratchAndSubplans
    /\ last = "fatal" => DOMAIN mem = heap0

\* the number of times the latest destroy released block b
Frees(b) == Cardinality({k \in 1..Len(log) : log[k] = <<"free", b>>})

\* C5: after build, executes and destroy the live blocks are those from before
\* the build: every block build allocated is released exactly once, and nothing
\* else is (the caller's buffers stay).
C5_DestroyReleasesAll ==
    last = "destroy" =>
        /\ DOMAIN mem = heap0
        /\ ~fault
        /\ \A b \in alloc : Frees(b) = 1
        /\ \A k \in 1..Len(log) : log[k][1] = "free" => log[k][2] \in alloc
        /\ {"_x", "_y"} \subseteq DOMAIN mem

C5_Witness ==
    /\ last = "destroy" /\ Len(memo) = 2 /\ used = {"FFT_FORWARD", "FFT_REVERSE"}
    /\ Cardinality(alloc) = 10 /\ DOMAIN mem = {"_x", "_y"}

FreeAt(b) == CHOOSE k \in 1..Len(log) : log[k] = <<"free", b>>

\* C6: destroy releases both sub-plans and what they own before any of the
\* scratch, staging and twiddle buffers, releases the plan record last, and
\* reads no field of the record after releasing it.
C6_DestroyOrder ==
    last = "destroy" =>
        /\ ~fault
        /\ \A b \in {"sub0", "sub0_buf", "sub1", "sub1_buf"} :
             \A c \in {"t0", "t1", "x", "twiddle"} :
                Frees(b) = 1 /\ Frees(c) = 1 /\ FreeAt(b) < FreeAt(c)
        /\ Len(log) > 0 /\ log[Len(log)] = <<"free", "q">>
        /\ \A k \in 1..Len(log) : log[k] = <<"read", "q">> => k < FreeAt("q")

C6_Witness ==
    /\ last = "destroy" /\ Len(log) = 17
    /\ log[2] = <<"free", "sub0_buf">> /\ log[17] = <<"free", "q">>

\* C7: execute leaves the caller's input buffer and the twiddle table as they
\* were; it writes only the staging buffer, the two scratch buffers and the
\* output buffer.
C7_ExecuteFrame ==
    Executed =>
        /\ mem["_x"] = pre["_x"] /\ mem["twiddle"] = pre["twiddle"]
        /\ \A b \in DOMAIN pre : mem[b] = pre[b]
        /\ DOMAIN mem = DOMAIN pre \cup {"x", "t0", "t1", "_y"}

C7_Witness ==
    /\ Executed /\ nfft = 12 /\ pre["_x"] = Ramp(12) /\ mem["_x"] = Ramp(12)
    /\ mem["x"] # mem["_x"] /\ mem["_y"] # mem["_x"]

\* C8: two executes of plans of the same direction on the same input give the
\* same output, whatever the executes before them left in the buffers.
C8_Repeatable ==
    \A i, j \in 1..Len(memo) :
        (memo[i].dir = memo[j].dir /\ memo[i].in = memo[j].in) =>
            memo[i].out = memo[j].out

C8_Witness ==
    /\ Len(memo) = 2 /\ nfft = 12
    /\ memo[1].dir = memo[2].dir /\ memo[1].in = memo[2].in
    /\ memo[1].out = memo[2].out /\ memo[1].out # memo[1].in

\* C9: a FORWARD execute on x followed by an INVERSE (REVERSE) execute on its
\* output yields N * x[n] at every index n; the FORWARD twiddle table is
\* exp(-2*pi*i*k/N), the INVERSE one exp(+2*pi*i*k/N), and nothing is scaled by 1/N.
RoundTrip(i, j) ==
    /\ i < j
    /\ memo[i].dir = "FFT_FORWARD" /\ memo[j].dir = "FFT_REVERSE"
    /\ memo[j].in = memo[i].out

C9_RoundTrip ==
    /\ Executed =>
         \A i \in 1..Len(memo) :
            RoundTrip(i, Len(memo)) =>
               \A n \in 1..nfft :
                  EqC(nfft, memo[Len(memo)].out[n], CScale(nfft, memo[i].in[n]))
    /\ last = "build" =>
         \A k \in 1..nfft :
            mem["twiddle"][k] = CUnit(nfft, (IF Forward THEN -1 ELSE 1) * (k - 1))

C9_Witness ==
    /\ Executed /\ nfft = 12 /\ Len(memo) = 2 /\ RoundTrip(1, 2)
    /\ memo[1].in = Ramp(12)
    /\ memo[2].out # memo[1].in

\* C10: every array access of execute is in bounds: the staging indices Q*k+i
\* and Q*i+k, the twiddle index i*k and the output index k*P+i are below N, and
\* the scratch indices are below the scratch length max(P, Q).
C10_InBounds ==
    /\ ~oob
    /\ plan = "q" =>
         LET q == mem["q"] IN
         /\ ~OutOfBounds(mem, q)
         /\ Len(mem["twiddle"]) = q.nfft /\ Len(mem["x"]) = q.nfft
         /\ Len(mem["t0"]) = Len(mem["t1"])
         /\ Len(mem["t0"]) >= q.P /\ Len(mem["t0"]) >= q.Q
         /\ Len(mem["t0"]) \in {q.P, q.Q}
         /\ \A a \in Accesses(q) : a[2] < Len(mem[a[1]])

C10_Witness ==
    /\ Executed /\ nfft = 10 /\ ~oob
    /\ <<"twiddle", 4>> \in Accesses(mem["q"])
    /\ <<"_y", 9>> \in Accesses(mem["q"])
    /\ <<"t0", 4>> \in Accesses(mem["q"]) /\ Len(mem["t0"]) = 5

====
